---- MODULE Spec2Model ----
(***************************************************************************)
(* Model of the ALX Polly server actions:                                  *)
(*   app/lib/actions/poll-actions.ts  (createPoll, getUserPolls,           *)
(*     getPollById, submitVote, deletePoll, updatePoll)                    *)
(*   app/lib/actions/auth-actions.ts  (login, register, logout)            *)
(* The data store (tables polls, votes) and the identity provider are the  *)
(* environment: every call to them may fail, and a request is suspended at *)
(* every store call it awaits, so that requests interleave there.          *)
(***************************************************************************)
EXTENDS Integers, Sequences, FiniteSets, TLC

\* ---------------------------------------------------------------- bounds
MaxPolls == 1
MaxVotes == 2
MaxListed == 3

\* ------------------------------------------------------- inputs and names
Procs == {"r1", "r2"}
Users == {"u1", "u2"}
Anonymous == "anonymous"
Null == "null"
PollIds == 1..MaxPolls
Questions == {"", "Q"}
FormOptions == {<<"a", "">>, <<"a", "", "b">>, <<"a", "b", "c">>}
OptionIndexes == {2}

\* The strings the poll actions return.
ErrValidation == "Please provide a question and at least two options."
ErrUserInfo == "Failed to retrieve user information."
ErrCreateLogin == "You must be logged in to create a poll."
ErrCreate == "Failed to create poll."
ErrNotAuthenticated == "Not authenticated"
ErrUserPolls == "Failed to retrieve user polls."
ErrRetrieve == "Failed to retrieve poll."
ErrPollNotFound == "Poll not found."
ErrViewLogin == "Authentication required to view this poll."
ErrViewForbidden == "You are not authorized to view this poll."
ErrNotFoundOrError == "Poll not found or an error occurred."
ErrVoteLogin == "You must be logged in to vote on this poll."
ErrCheckVotes == "Failed to check existing votes."
ErrAlreadyVoted == "You have already voted on this poll."
ErrSubmitVote == "Failed to submit vote."
ErrDeleteLogin == "You must be logged in to delete a poll."
ErrDeleteForbidden == "You are not authorized to delete this poll."
ErrDelete == "Failed to delete poll."
ErrUpdateLogin == "You must be logged in to update a poll."
ErrUpdate == "Failed to update poll."

\* The strings the auth actions return.
ErrInvalidCredentials == "Invalid credentials."
ErrRegistration == "Registration failed. Please try again."
\* register's validation failure: the error is the map in ret.fieldErrors
FieldErrors == "fieldErrors"

\* RegisterSchema's limits and messages
MinName == 2
MaxName == 50
MinPassword == 8
MsgNameMin == "Name is required and must be at least 2 characters."
MsgNameMax == "Name cannot exceed 50 characters."
MsgEmail == "Invalid email address."
MsgPwLength == "Password must be at least 8 characters long."
MsgPwUpper == "Password must contain at least one uppercase letter."
MsgPwLower == "Password must contain at least one lowercase letter."
MsgPwNumber == "Password must contain at least one number."
MsgPwSpecial == "Password must contain at least one special character."

\* Strings are sequences of one-character strings.
UpperCase == {"A", "B", "C", "D", "E", "F", "G", "H", "I", "J", "K", "L", "M",
              "N", "O", "P", "Q", "R", "S", "T", "U", "V", "W", "X", "Y", "Z"}
LowerCase == {"a", "b", "c", "d", "e", "f", "g", "h", "i", "j", "k", "l", "m",
              "n", "o", "p", "q", "r", "s", "t", "u", "v", "w", "x", "y", "z"}
Digits == {"0", "1", "2", "3", "4", "5", "6", "7", "8", "9"}

Names == {<<"A">>, <<"A", "l">>, [i \in 1..(MaxName + 1) |-> "x"]}
Emails == {<<"a", "@", "b", ".", "i", "o">>, <<"c", "@", "b", ".", "i", "o">>,
           <<"a", "b">>}
Passwords == {<<"a", "b", "c">>,
              <<"a", "b", "c", "d", "e", "f", "g", "h">>,
              <<"A", "b", "c", "d", "e", "f", "1", "!">>}
\* the texts of the identity provider's own errors
ProviderMessages == {"Invalid login credentials", "User already registered",
                     "Database error querying schema"}

\* ------------------------------------------------------------ poll settings
SettingKeys == {"requireAuthentication", "allowMultipleVotes"}
NullSettings == [null |-> TRUE]
SettingsValues ==
    {NullSettings} \cup UNION {[K -> BOOLEAN] : K \in {{}, SettingKeys}}

\* poll.settings?.key evaluated for truthiness
OptionalChain(settings, key) ==
    /\ settings # NullSettings
    /\ key \in DOMAIN settings
    /\ settings[key]

NoPoll == [null |-> TRUE]
NoResponse == [op |-> "none"]

VARIABLES polls, nextId, votes, settingsDefault, accounts, req, ret

vars == <<polls, nextId, votes, settingsDefault, accounts, req, ret>>

Idle == [op |-> "none", pc |-> "idle"]

\* getAll("options") without the filter
FilterBoolean_Identity(formOptions) == formOptions

\* formData.getAll("options").filter(Boolean)
FilterBoolean(formOptions) == SelectSeq(formOptions, LAMBDA s : s # "")

\* supabase.auth.getUser(): the resolved user, or none, with or without error
GetUserResults ==
    {[user |-> u, error |-> FALSE] : u \in Users}
        \cup {[user |-> Anonymous, error |-> e] : e \in BOOLEAN}

\* .from("polls").select(...).eq("id", id).single()
SinglePoll(id, storeFails) ==
    IF ~storeFails /\ id \in DOMAIN polls
    THEN [data |-> polls[id], error |-> FALSE]
    ELSE [data |-> NoPoll, error |-> TRUE]

Response(op, user, id, error) ==
    [op |-> op, user |-> user, id |-> id, error |-> error,
     poll |-> NoPoll, polls |-> <<>>, fieldErrors |-> <<>>]

Init ==
    /\ polls = <<>>
    /\ nextId = 1
    /\ votes = <<>>
    /\ settingsDefault \in SettingsValues
    /\ accounts = {}
    /\ req = [p \in Procs |-> Idle]
    /\ ret = NoResponse

AllIdle == \A p \in Procs : req[p] = Idle

\* ---------------------------------------------------------------- createPoll
CreatePoll(caller, question, formOptions, storeFails) ==
    LET options == FilterBoolean(formOptions)
        resp(e) == Response("createPoll", caller.user, 0, e)
    IN  /\ IF question = "" \/ Len(options) < 2
           THEN /\ ret' = resp(ErrValidation)
                /\ UNCHANGED <<polls, nextId, votes, settingsDefault,
                               accounts, req>>
           ELSE IF caller.error
           THEN /\ ret' = resp(ErrUserInfo)
                /\ UNCHANGED <<polls, nextId, votes, settingsDefault,
                               accounts, req>>
           ELSE IF caller.user = Anonymous
           THEN /\ ret' = resp(ErrCreateLogin)
                /\ UNCHANGED <<polls, nextId, votes, settingsDefault,
                               accounts, req>>
           ELSE IF storeFails
           THEN /\ ret' = resp(ErrCreate)
                /\ UNCHANGED <<polls, nextId, votes, settingsDefault,
                               accounts, req>>
           ELSE /\ nextId <= MaxPolls
                /\ polls' = polls @@ (nextId :>
                       [id |-> nextId, user_id |-> caller.user,
                        question |-> question, options |-> options,
                        settings |-> settingsDefault, created_at |-> nextId])
                /\ nextId' = nextId + 1
                /\ ret' = resp(Null)
                /\ UNCHANGED <<votes, settingsDefault, accounts, req>>

\* -------------------------------------------------------------- getUserPolls
RECURSIVE OrderByCreatedAtDesc(_)
OrderByCreatedAtDesc(rows) ==
    IF rows = {} THEN <<>>
    ELSE LET newest == CHOOSE r \in rows :
                           \A o \in rows : o.created_at <= r.created_at
         IN  <<newest>> \o OrderByCreatedAtDesc(rows \ {newest})

\* a listing without the filter on the owner
GetUserPolls_AllOwners(caller, storeFails) ==
    /\ IF caller.user = Anonymous
       THEN ret' = Response("getUserPolls", caller.user, 0, ErrNotAuthenticated)
       ELSE IF storeFails
       THEN ret' = Response("getUserPolls", caller.user, 0, ErrUserPolls)
       ELSE ret' = [Response("getUserPolls", caller.user, 0, Null)
                       EXCEPT !.polls = OrderByCreatedAtDesc(
                           {polls[i] : i \in DOMAIN polls})]
    /\ UNCHANGED <<polls, nextId, votes, settingsDefault, accounts, req>>

\* .from("polls").select("*").eq("user_id", user.id).order("created_at")
GetUserPolls(caller, storeFails) ==
    /\ IF caller.user = Anonymous
       THEN ret' = Response("getUserPolls", caller.user, 0, ErrNotAuthenticated)
       ELSE IF storeFails
       THEN ret' = Response("getUserPolls", caller.user, 0, ErrUserPolls)
       ELSE ret' = [Response("getUserPolls", caller.user, 0, Null)
                       EXCEPT !.polls = OrderByCreatedAtDesc(
                           {polls[i] : i \in {j \in DOMAIN polls :
                                polls[j].user_id = caller.user}})]
    /\ UNCHANGED <<polls, nextId, votes, settingsDefault, accounts, req>>

\* --------------------------------------------------------------- getPollById
RequireAuthentication(poll) ==
    OptionalChain(poll.settings, "requireAuthentication")

AllowMultipleVotes(poll) ==
    OptionalChain(poll.settings, "allowMultipleVotes")

\* getPollById without the ownership branch
GetPollById_NoOwnerCheck(caller, id, storeFails) ==
    LET r == SinglePoll(id, storeFails)
        poll == r.data
        user == caller.user
        resp(e) == Response("getPollById", user, id, e)
    IN  /\ IF r.error
           THEN ret' = resp(ErrRetrieve)
           ELSE IF RequireAuthentication(poll) /\ user = Anonymous
           THEN ret' = resp(ErrViewLogin)
           ELSE ret' = [resp(Null) EXCEPT !.poll = poll]
        /\ UNCHANGED <<polls, nextId, votes, settingsDefault, accounts, req>>

\* getPollById asking for a login whatever the poll's settings
GetPollById_LoginAlways(caller, id, storeFails) ==
    LET r == SinglePoll(id, storeFails)
        poll == r.data
        user == caller.user
        resp(e) == Response("getPollById", user, id, e)
    IN  /\ IF r.error
           THEN ret' = resp(ErrRetrieve)
           ELSE IF user = Anonymous
           THEN ret' = resp(ErrViewLogin)
           ELSE IF poll.user_id # user /\ RequireAuthentication(poll)
           THEN ret' = resp(ErrViewForbidden)
           ELSE ret' = [resp(Null) EXCEPT !.poll = poll]
        /\ UNCHANGED <<polls, nextId, votes, settingsDefault, accounts, req>>

GetPollById(caller, id, storeFails) ==
    LET r == SinglePoll(id, storeFails)
        poll == r.data
        user == caller.user
        resp(e) == Response("getPollById", user, id, e)
    IN  /\ IF r.error
           THEN ret' = resp(ErrRetrieve)
           ELSE IF poll = NoPoll
           THEN ret' = resp(ErrPollNotFound)
           ELSE IF RequireAuthentication(poll) /\ user = Anonymous
           THEN ret' = resp(ErrViewLogin)
           ELSE IF /\ user # Anonymous
                   /\ poll.user_id # user
                   /\ RequireAuthentication(poll)
           THEN ret' = resp(ErrViewForbidden)
           ELSE ret' = [resp(Null) EXCEPT !.poll = poll]
        /\ UNCHANGED <<polls, nextId, votes, settingsDefault, accounts, req>>

\* ---------------------------------------------------------------- submitVote
\* the lookup filtered by poll alone
SingleVote_ByPollOnly(pollId, user, storeFails) ==
    LET n == Cardinality({i \in DOMAIN votes : votes[i].poll_id = pollId})
    IN  IF storeFails THEN [found |-> FALSE, code |-> "XX000"]
        ELSE IF n = 1 THEN [found |-> TRUE, code |-> Null]
        ELSE [found |-> FALSE, code |-> "PGRST116"]

\* .from("votes").select("id").eq("poll_id", ..).eq("user_id", ..).single():
\* one matching row is returned as data; no row, or more than one, is error
\* PGRST116; a failing store is any other error.
SingleVote(pollId, user, storeFails) ==
    LET n == Cardinality({i \in DOMAIN votes :
                 votes[i].poll_id = pollId /\ votes[i].user_id = user})
    IN  IF storeFails THEN [found |-> FALSE, code |-> "XX000"]
        ELSE IF n = 1 THEN [found |-> TRUE, code |-> Null]
        ELSE [found |-> FALSE, code |-> "PGRST116"]

\* the number of vote rows of one user (or Null) for one poll
VoteCount(pollId, userId) ==
    Cardinality({k \in DOMAIN votes :
        votes[k].poll_id = pollId /\ votes[k].user_id = userId})

\* submitVote that never looks for an existing vote
SubmitVote_Fetch_NoDuplicateCheck(p, caller, pollId, optionIndex, storeFails) ==
    LET r == SinglePoll(pollId, storeFails)
        poll == r.data
        user == caller.user
        resp(e) == Response("submitVote", user, pollId, e)
    IN  /\ req[p] = Idle
        /\ IF r.error \/ poll = NoPoll
           THEN ret' = resp(ErrNotFoundOrError) /\ UNCHANGED req
           ELSE IF RequireAuthentication(poll) /\ user = Anonymous
           THEN ret' = resp(ErrVoteLogin) /\ UNCHANGED req
           ELSE /\ req' = [req EXCEPT ![p] =
                      [op |-> "submitVote", pc |-> "insert",
                       user |-> user, id |-> pollId,
                       optionIndex |-> optionIndex]]
                /\ ret' = NoResponse
        /\ UNCHANGED <<polls, nextId, votes, settingsDefault, accounts>>

\* submitVote that never asks for a login
SubmitVote_Fetch_NoAuthCheck(p, caller, pollId, optionIndex, storeFails) ==
    LET r == SinglePoll(pollId, storeFails)
        poll == r.data
        user == caller.user
        resp(e) == Response("submitVote", user, pollId, e)
    IN  /\ req[p] = Idle
        /\ IF r.error \/ poll = NoPoll
           THEN ret' = resp(ErrNotFoundOrError) /\ UNCHANGED req
           ELSE /\ req' = [req EXCEPT ![p] =
                      [op |-> "submitVote",
                       pc |-> IF ~AllowMultipleVotes(poll)
                                 /\ user # Anonymous
                              THEN "lookup" ELSE "insert",
                       user |-> user, id |-> pollId,
                       optionIndex |-> optionIndex]]
                /\ ret' = NoResponse
        /\ UNCHANGED <<polls, nextId, votes, settingsDefault, accounts>>

\* submitVote that looks for an existing vote of anonymous callers too
SubmitVote_Fetch_LookupAlways(p, caller, pollId, optionIndex, storeFails) ==
    LET r == SinglePoll(pollId, storeFails)
        poll == r.data
        user == caller.user
        resp(e) == Response("submitVote", user, pollId, e)
    IN  /\ req[p] = Idle
        /\ IF r.error \/ poll = NoPoll
           THEN ret' = resp(ErrNotFoundOrError) /\ UNCHANGED req
           ELSE IF RequireAuthentication(poll) /\ user = Anonymous
           THEN ret' = resp(ErrVoteLogin) /\ UNCHANGED req
           ELSE /\ req' = [req EXCEPT ![p] =
                      [op |-> "submitVote",
                       pc |-> IF ~AllowMultipleVotes(poll)
                              THEN "lookup" ELSE "insert",
                       user |-> user, id |-> pollId,
                       optionIndex |-> optionIndex]]
                /\ ret' = NoResponse
        /\ UNCHANGED <<polls, nextId, votes, settingsDefault, accounts>>

\* submitVote that admits only the owner to a poll that requires a login
SubmitVote_Fetch_OwnerOnly(p, caller, pollId, optionIndex, storeFails) ==
    LET r == SinglePoll(pollId, storeFails)
        poll == r.data
        user == caller.user
        resp(e) == Response("submitVote", user, pollId, e)
    IN  /\ req[p] = Idle
        /\ IF r.error \/ poll = NoPoll
           THEN ret' = resp(ErrNotFoundOrError) /\ UNCHANGED req
           ELSE IF RequireAuthentication(poll) /\ user # poll.user_id
           THEN ret' = resp(ErrVoteLogin) /\ UNCHANGED req
           ELSE /\ req' = [req EXCEPT ![p] =
                      [op |-> "submitVote",
                       pc |-> IF ~AllowMultipleVotes(poll)
                                 /\ user # Anonymous
                              THEN "lookup" ELSE "insert",
                       user |-> user, id |-> pollId,
                       optionIndex |-> optionIndex]]
                /\ ret' = NoResponse
        /\ UNCHANGED <<polls, nextId, votes, settingsDefault, accounts>>

\* getUser and the fetch of the poll's settings
SubmitVote_Fetch(p, caller, pollId, optionIndex, storeFails) ==
    LET r == SinglePoll(pollId, storeFails)
        poll == r.data
        user == caller.user
        resp(e) == Response("submitVote", user, pollId, e)
    IN  /\ req[p] = Idle
        /\ IF r.error \/ poll = NoPoll
           THEN ret' = resp(ErrNotFoundOrError) /\ UNCHANGED req
           ELSE IF RequireAuthentication(poll) /\ user = Anonymous
           THEN ret' = resp(ErrVoteLogin) /\ UNCHANGED req
           ELSE /\ req' = [req EXCEPT ![p] =
                      [op |-> "submitVote",
                       pc |-> IF ~AllowMultipleVotes(poll)
                                 /\ user # Anonymous
                              THEN "lookup" ELSE "insert",
                       user |-> user, id |-> pollId,
                       optionIndex |-> optionIndex]]
                /\ ret' = NoResponse
        /\ UNCHANGED <<polls, nextId, votes, settingsDefault, accounts>>

\* a lookup that takes the no-rows signal for a failure
SubmitVote_Lookup_NoRowsIsError(p, storeFails) ==
    LET r == SingleVote(req[p].id, req[p].user, storeFails)
        resp(e) == Response("submitVote", req[p].user, req[p].id, e)
    IN  /\ req[p].op = "submitVote"
        /\ req[p].pc = "lookup"
        /\ IF r.code # Null
           THEN ret' = resp(ErrCheckVotes) /\ req' = [req EXCEPT ![p] = Idle]
           ELSE IF r.found
           THEN ret' = resp(ErrAlreadyVoted) /\ req' = [req EXCEPT ![p] = Idle]
           ELSE /\ req' = [req EXCEPT ![p].pc = "insert"]
                /\ ret' = NoResponse
        /\ UNCHANGED <<polls, nextId, votes, settingsDefault, accounts>>

\* the existing-vote lookup
SubmitVote_Lookup(p, storeFails) ==
    LET r == SingleVote(req[p].id, req[p].user, storeFails)
        resp(e) == Response("submitVote", req[p].user, req[p].id, e)
    IN  /\ req[p].op = "submitVote"
        /\ req[p].pc = "lookup"
        /\ IF r.code # Null /\ r.code # "PGRST116"
           THEN ret' = resp(ErrCheckVotes) /\ req' = [req EXCEPT ![p] = Idle]
           ELSE IF r.found
           THEN ret' = resp(ErrAlreadyVoted) /\ req' = [req EXCEPT ![p] = Idle]
           ELSE /\ req' = [req EXCEPT ![p].pc = "insert"]
                /\ ret' = NoResponse
        /\ UNCHANGED <<polls, nextId, votes, settingsDefault, accounts>>

\* an insert under a uniqueness constraint on (poll_id, user_id)
InsertVote_Unique(rows, row) ==
    IF \E k \in DOMAIN rows :
           rows[k].poll_id = row.poll_id /\ rows[k].user_id = row.user_id
    THEN rows
    ELSE Append(rows, row)

\* .from("votes").insert([...])
InsertVote(rows, row) == Append(rows, row)

SubmitVote_Insert(p, storeFails) ==
    LET resp(e) == Response("submitVote", req[p].user, req[p].id, e)
    IN  /\ req[p].op = "submitVote"
        /\ req[p].pc = "insert"
        /\ IF storeFails
           THEN ret' = resp(ErrSubmitVote) /\ UNCHANGED votes
           ELSE /\ Len(votes) < MaxVotes
                /\ votes' = InsertVote(votes,
                       [poll_id |-> req[p].id,
                        user_id |-> IF req[p].user = Anonymous
                                    THEN Null ELSE req[p].user,
                        option_index |-> req[p].optionIndex])
                /\ ret' = resp(Null)
        /\ req' = [req EXCEPT ![p] = Idle]
        /\ UNCHANGED <<polls, nextId, settingsDefault, accounts>>

\* ---------------------------------------------------------------- deletePoll
\* deletePoll without the ownership check
DeletePoll_Fetch_NoOwnerCheck(p, caller, id, storeFails) ==
    LET r == SinglePoll(id, storeFails)
        poll == r.data
        user == caller.user
        resp(e) == Response("deletePoll", user, id, e)
    IN  /\ req[p] = Idle
        /\ IF caller.error \/ user = Anonymous
           THEN ret' = resp(ErrDeleteLogin) /\ UNCHANGED req
           ELSE IF r.error \/ poll = NoPoll
           THEN ret' = resp(ErrNotFoundOrError) /\ UNCHANGED req
           ELSE /\ req' = [req EXCEPT ![p] =
                      [op |-> "deletePoll", pc |-> "delete",
                       user |-> user, id |-> id, optionIndex |-> 0]]
                /\ ret' = NoResponse
        /\ UNCHANGED <<polls, nextId, votes, settingsDefault, accounts>>

\* getUser and the fetch of the poll's owner
DeletePoll_Fetch(p, caller, id, storeFails) ==
    LET r == SinglePoll(id, storeFails)
        poll == r.data
        user == caller.user
        resp(e) == Response("deletePoll", user, id, e)
    IN  /\ req[p] = Idle
        /\ IF caller.error \/ user = Anonymous
           THEN ret' = resp(ErrDeleteLogin) /\ UNCHANGED req
           ELSE IF r.error \/ poll = NoPoll
           THEN ret' = resp(ErrNotFoundOrError) /\ UNCHANGED req
           ELSE IF poll.user_id # user
           THEN ret' = resp(ErrDeleteForbidden) /\ UNCHANGED req
           ELSE /\ req' = [req EXCEPT ![p] =
                      [op |-> "deletePoll", pc |-> "delete",
                       user |-> user, id |-> id, optionIndex |-> 0]]
                /\ ret' = NoResponse
        /\ UNCHANGED <<polls, nextId, votes, settingsDefault, accounts>>

\* a delete that also removes the votes of the poll
DeletePoll_Delete_Cascade(p, storeFails) ==
    LET resp(e) == Response("deletePoll", req[p].user, req[p].id, e)
    IN  /\ req[p].op = "deletePoll"
        /\ req[p].pc = "delete"
        /\ IF storeFails
           THEN ret' = resp(ErrDelete) /\ UNCHANGED <<polls, votes>>
           ELSE /\ polls' = [i \in DOMAIN polls \ {req[p].id} |-> polls[i]]
                /\ votes' = SelectSeq(votes,
                       LAMBDA v : v.poll_id # req[p].id)
                /\ ret' = resp(Null)
        /\ req' = [req EXCEPT ![p] = Idle]
        /\ UNCHANGED <<nextId, settingsDefault, accounts>>

\* .from("polls").delete().eq("id", id)
DeletePoll_Delete(p, storeFails) ==
    LET resp(e) == Response("deletePoll", req[p].user, req[p].id, e)
    IN  /\ req[p].op = "deletePoll"
        /\ req[p].pc = "delete"
        /\ IF storeFails
           THEN ret' = resp(ErrDelete) /\ UNCHANGED polls
           ELSE /\ polls' = [i \in DOMAIN polls \ {req[p].id} |-> polls[i]]
                /\ ret' = resp(Null)
        /\ req' = [req EXCEPT ![p] = Idle]
        /\ UNCHANGED <<nextId, votes, settingsDefault, accounts>>

\* ---------------------------------------------------------------- updatePoll
\* an update filtered by the poll id alone
UpdatePoll_ByIdOnly(caller, pollId, question, formOptions, storeFails) ==
    LET options == FilterBoolean(formOptions)
        resp(e) == Response("updatePoll", caller.user, pollId, e)
    IN  /\ IF question = "" \/ Len(options) < 2
           THEN /\ ret' = resp(ErrValidation)
                /\ UNCHANGED <<polls, nextId, votes, settingsDefault,
                               accounts, req>>
           ELSE IF caller.error
           THEN /\ ret' = resp(ErrUserInfo)
                /\ UNCHANGED <<polls, nextId, votes, settingsDefault,
                               accounts, req>>
           ELSE IF caller.user = Anonymous
           THEN /\ ret' = resp(ErrUpdateLogin)
                /\ UNCHANGED <<polls, nextId, votes, settingsDefault,
                               accounts, req>>
           ELSE IF storeFails
           THEN /\ ret' = resp(ErrUpdate)
                /\ UNCHANGED <<polls, nextId, votes, settingsDefault,
                               accounts, req>>
           ELSE /\ polls' = [i \in DOMAIN polls |->
                       IF i = pollId
                       THEN [polls[i] EXCEPT !.question = question,
                                             !.options = options]
                       ELSE polls[i]]
                /\ ret' = resp(Null)
                /\ UNCHANGED <<nextId, votes, settingsDefault, accounts, req>>

\* an update that skips the validation of its input
UpdatePoll_NoValidation(caller, pollId, question, formOptions, storeFails) ==
    LET options == FilterBoolean(formOptions)
        resp(e) == Response("updatePoll", caller.user, pollId, e)
    IN  /\ IF FALSE
           THEN /\ ret' = resp(ErrValidation)
                /\ UNCHANGED <<polls, nextId, votes, settingsDefault,
                               accounts, req>>
           ELSE IF caller.error
           THEN /\ ret' = resp(ErrUserInfo)
                /\ UNCHANGED <<polls, nextId, votes, settingsDefault,
                               accounts, req>>
           ELSE IF caller.user = Anonymous
           THEN /\ ret' = resp(ErrUpdateLogin)
                /\ UNCHANGED <<polls, nextId, votes, settingsDefault,
                               accounts, req>>
           ELSE IF storeFails
           THEN /\ ret' = resp(ErrUpdate)
                /\ UNCHANGED <<polls, nextId, votes, settingsDefault,
                               accounts, req>>
           ELSE /\ polls' = [i \in DOMAIN polls |->
                       IF i = pollId /\ polls[i].user_id = caller.user
                       THEN [polls[i] EXCEPT !.question = question,
                                             !.options = options]
                       ELSE polls[i]]
                /\ ret' = resp(Null)
                /\ UNCHANGED <<nextId, votes, settingsDefault, accounts, req>>

\* an update filtered by the owner alone
UpdatePoll_ByOwnerOnly(caller, pollId, question, formOptions, storeFails) ==
    LET options == FilterBoolean(formOptions)
        resp(e) == Response("updatePoll", caller.user, pollId, e)
    IN  /\ IF question = "" \/ Len(options) < 2
           THEN /\ ret' = resp(ErrValidation)
                /\ UNCHANGED <<polls, nextId, votes, settingsDefault,
                               accounts, req>>
           ELSE IF caller.error
           THEN /\ ret' = resp(ErrUserInfo)
                /\ UNCHANGED <<polls, nextId, votes, settingsDefault,
                               accounts, req>>
           ELSE IF caller.user = Anonymous
           THEN /\ ret' = resp(ErrUpdateLogin)
                /\ UNCHANGED <<polls, nextId, votes, settingsDefault,
                               accounts, req>>
           ELSE IF storeFails
           THEN /\ ret' = resp(ErrUpdate)
                /\ UNCHANGED <<polls, nextId, votes, settingsDefault,
                               accounts, req>>
           ELSE /\ polls' = [i \in DOMAIN polls |->
                       IF polls[i].user_id = caller.user
                       THEN [polls[i] EXCEPT !.question = question,
                                             !.options = options]
                       ELSE polls[i]]
                /\ ret' = resp(Null)
                /\ UNCHANGED <<nextId, votes, settingsDefault, accounts, req>>

\* .from("polls").update({ question, options }).eq("id").eq("user_id")
UpdatePoll(caller, pollId, question, formOptions, storeFails) ==
    LET options == FilterBoolean(formOptions)
        resp(e) == Response("updatePoll", caller.user, pollId, e)
    IN  /\ IF question = "" \/ Len(options) < 2
           THEN /\ ret' = resp(ErrValidation)
                /\ UNCHANGED <<polls, nextId, votes, settingsDefault,
                               accounts, req>>
           ELSE IF caller.error
           THEN /\ ret' = resp(ErrUserInfo)
                /\ UNCHANGED <<polls, nextId, votes, settingsDefault,
                               accounts, req>>
           ELSE IF caller.user = Anonymous
           THEN /\ ret' = resp(ErrUpdateLogin)
                /\ UNCHANGED <<polls, nextId, votes, settingsDefault,
                               accounts, req>>
           ELSE IF storeFails
           THEN /\ ret' = resp(ErrUpdate)
                /\ UNCHANGED <<polls, nextId, votes, settingsDefault,
                               accounts, req>>
           ELSE /\ polls' = [i \in DOMAIN polls |->
                       IF i = pollId /\ polls[i].user_id = caller.user
                       THEN [polls[i] EXCEPT !.question = question,
                                             !.options = options]
                       ELSE polls[i]]
                /\ ret' = resp(Null)
                /\ UNCHANGED <<nextId, votes, settingsDefault, accounts, req>>

\* ---------------------------------------------------------------- register
\* z.string().regex(re): some character of the string is in the class
HasChar(str, class) == \E i \in 1..Len(str) : str[i] \in class

\* z.string().email(): one "@", a non-empty local part, and a domain of
\* dot-separated non-empty labels ending in a label of two letters or more
IsEmail(str) ==
    \E at \in 1..Len(str) :
        /\ str[at] = "@"
        /\ \A i \in 1..Len(str) : str[i] = "@" => i = at
        /\ at > 1
        /\ str[1] # "." /\ str[at - 1] # "."
        /\ \E dot \in (at + 2)..(Len(str) - 2) :
              /\ str[dot] = "."
              /\ \A i \in (dot + 1)..Len(str) :
                    str[i] \in UpperCase \cup LowerCase
              /\ \A i \in (at + 1)..(dot - 1) :
                    str[i] = "." => str[i + 1] # "."
              /\ str[at + 1] # "."

\* a validation that stops at the first failed check of a field
Messages_FirstOnly(checks) ==
    LET failed == SelectSeq(checks, LAMBDA c : ~c.ok)
    IN  IF failed = <<>> THEN <<>> ELSE <<failed[1]>>

\* the failed checks of one field, in schema order
Messages(checks) == SelectSeq(checks, LAMBDA c : ~c.ok)

\* RegisterSchema.safeParse(data).error.flatten().fieldErrors: for each field
\* with a failed check, the messages of all its failed checks in schema order
RegisterSchema(data) ==
    LET name == Messages(<<
            [ok |-> Len(data.name) >= MinName, msg |-> MsgNameMin],
            [ok |-> Len(data.name) <= MaxName, msg |-> MsgNameMax]>>)
        email == Messages(<<[ok |-> IsEmail(data.email), msg |-> MsgEmail]>>)
        password == Messages(<<
            [ok |-> Len(data.password) >= MinPassword, msg |-> MsgPwLength],
            [ok |-> HasChar(data.password, UpperCase), msg |-> MsgPwUpper],
            [ok |-> HasChar(data.password, LowerCase), msg |-> MsgPwLower],
            [ok |-> HasChar(data.password, Digits), msg |-> MsgPwNumber],
            [ok |-> \E i \in 1..Len(data.password) : data.password[i] \notin
                       UpperCase \cup LowerCase \cup Digits,
             msg |-> MsgPwSpecial]>>)
        all == [name |-> name, email |-> email, password |-> password]
        failed == {f \in DOMAIN all : all[f] # <<>>}
    IN  [f \in failed |-> [m \in 1..Len(all[f]) |-> all[f][m].msg]]

\* supabase.auth.signUp: the provider accepts a new email, and fails for a
\* registered one or on its own failure
SignUp(email, providerFails) ==
    IF providerFails THEN "Database error querying schema"
    ELSE IF \E a \in accounts : a.email = email THEN "User already registered"
    ELSE Null

Register(data, providerFails) ==
    LET errors == RegisterSchema(data)
        error == SignUp(data.email, providerFails)
    IN  /\ IF DOMAIN errors # {}
           THEN /\ ret' = [Response("register", Anonymous, 0, FieldErrors)
                              EXCEPT !.fieldErrors = errors]
                /\ UNCHANGED <<polls, nextId, votes, settingsDefault, accounts,
                               req>>
           ELSE IF error # Null
           THEN /\ ret' = Response("register", Anonymous, 0, ErrRegistration)
                /\ UNCHANGED <<polls, nextId, votes, settingsDefault, accounts,
                               req>>
           ELSE /\ accounts' = accounts \cup
                       {[email |-> data.email, password |-> data.password]}
                /\ ret' = Response("register", Anonymous, 0, Null)
                /\ UNCHANGED <<polls, nextId, votes, settingsDefault, req>>

\* ------------------------------------------------------------------- login
\* supabase.auth.signInWithPassword: the provider's error, if any
SignInWithPassword(email, password, providerFails) ==
    IF providerFails THEN "Database error querying schema"
    ELSE IF [email |-> email, password |-> password] \in accounts THEN Null
    ELSE "Invalid login credentials"

\* a login that hands back the provider's message
Login_ProviderMessage(data, providerFails) ==
    LET error == SignInWithPassword(data.email, data.password, providerFails)
    IN  /\ IF error # Null
           THEN ret' = Response("login", Anonymous, 0, error)
           ELSE ret' = Response("login", Anonymous, 0, Null)
        /\ UNCHANGED <<polls, nextId, votes, settingsDefault, accounts, req>>

Login(data, providerFails) ==
    LET error == SignInWithPassword(data.email, data.password, providerFails)
    IN  /\ IF error # Null
           THEN ret' = Response("login", Anonymous, 0, ErrInvalidCredentials)
           ELSE ret' = Response("login", Anonymous, 0, Null)
        /\ UNCHANGED <<polls, nextId, votes, settingsDefault, accounts, req>>

\* ------------------------------------------------------------------ logout
\* error is supabase.auth.signOut()'s error message, or Null
Logout(error) ==
    /\ IF error # Null
       THEN ret' = Response("logout", Anonymous, 0, error)
       ELSE ret' = Response("logout", Anonymous, 0, Null)
    /\ UNCHANGED <<polls, nextId, votes, settingsDefault, accounts, req>>

\* ---------------------------------------------------------- specifications
\* A request takes a step once the previous response has been handed back.
Ready == ret = NoResponse

\* Each operation with its inputs: the identity getUser resolves, the
\* arguments, and whether the store or provider call fails.
DoCreatePoll ==
    Ready /\ \E c \in GetUserResults, q \in Questions, o \in FormOptions,
       f \in BOOLEAN : CreatePoll(c, q, o, f)
DoGetUserPolls ==
    Ready /\ \E c \in GetUserResults, f \in BOOLEAN : GetUserPolls(c, f)
DoGetPollById ==
    Ready /\ \E c \in GetUserResults, i \in PollIds, f \in BOOLEAN :
                 GetPollById(c, i, f)
DoSubmitVote ==
    Ready /\ \E p \in Procs, c \in GetUserResults, i \in PollIds,
                x \in OptionIndexes, f \in BOOLEAN :
                 SubmitVote_Fetch(p, c, i, x, f)
DoDeletePoll ==
    Ready /\ \E p \in Procs, c \in GetUserResults, i \in PollIds,
                f \in BOOLEAN : DeletePoll_Fetch(p, c, i, f)
DoUpdatePoll ==
    Ready /\ \E c \in GetUserResults, i \in PollIds, q \in Questions,
                o \in FormOptions, f \in BOOLEAN : UpdatePoll(c, i, q, o, f)
DoLogin ==
    Ready /\ \E e \in Emails, w \in Passwords, f \in BOOLEAN :
        Login([email |-> e, password |-> w], f)
DoRegister ==
    Ready /\ \E n \in Names, e \in Emails, w \in Passwords, f \in BOOLEAN :
        Register([name |-> n, email |-> e, password |-> w], f)
DoLogout == Ready /\ \E e \in ProviderMessages \cup {Null} : Logout(e)
DoSubmitVote_Lookup ==
    Ready /\ \E p \in Procs, f \in BOOLEAN : SubmitVote_Lookup(p, f)
DoSubmitVote_Insert ==
    Ready /\ \E p \in Procs, f \in BOOLEAN : SubmitVote_Insert(p, f)
DoDeletePoll_Delete ==
    Ready /\ \E p \in Procs, f \in BOOLEAN : DeletePoll_Delete(p, f)

\* the caller receives the response of the request that just completed
Return ==
    /\ ret # NoResponse
    /\ ret' = NoResponse
    /\ UNCHANGED <<polls, nextId, votes, settingsDefault, accounts, req>>

\* The poll actions; requests interleave at their store calls.
Next ==
    \/ DoCreatePoll
    \/ DoGetUserPolls
    \/ DoGetPollById
    \/ DoSubmitVote
    \/ DoSubmitVote_Lookup
    \/ DoSubmitVote_Insert
    \/ DoDeletePoll
    \/ DoDeletePoll_Delete
    \/ DoUpdatePoll
    \/ Return

Spec == Init /\ [][Next]_vars

\* One request at a time: a call starts only when no request is in flight.
SeqNext ==
    \/ AllIdle /\ DoCreatePoll
    \/ AllIdle /\ DoGetUserPolls
    \/ AllIdle /\ DoGetPollById
    \/ AllIdle /\ DoSubmitVote
    \/ DoSubmitVote_Lookup
    \/ DoSubmitVote_Insert
    \/ AllIdle /\ DoDeletePoll
    \/ DoDeletePoll_Delete
    \/ AllIdle /\ DoUpdatePoll
    \/ Return

SeqSpec == Init /\ [][SeqNext]_vars

\* The listing over a store that holds several polls: the polls created so
\* far have the ids 1..MaxListed, any of them may have been deleted, and each
\* remaining one belongs to either user.
ListInit ==
    /\ settingsDefault \in SettingsValues
    /\ \E ids \in SUBSET (1..MaxListed) :
         \E owner \in [ids -> Users] :
            polls = [i \in ids |->
                       [id |-> i, user_id |-> owner[i], question |-> "Q",
                        options |-> <<"a", "b">>,
                        settings |-> settingsDefault, created_at |-> i]]
    /\ nextId = MaxListed + 1
    /\ votes = <<>>
    /\ accounts = {}
    /\ req = [p \in Procs |-> Idle]
    /\ ret = NoResponse

ListNext ==
    \/ DoGetUserPolls
    \/ Return

ListSpec == ListInit /\ [][ListNext]_vars

\* The poll actions, one request at a time, over a store that holds several
\* polls: requests address the ids in PollIds, the other polls stand by.
StoreSpec == ListInit /\ [][SeqNext]_vars

\* The auth actions: they call the identity provider alone and share no
\* state with the poll actions.
AuthNext ==
    \/ DoLogin
    \/ DoRegister
    \/ DoLogout
    \/ Return

AuthSpec == Init /\ [][AuthNext]_vars

\* ------------------------------------------------------------------ claims

\* C1 as stated: getPollById on an existing poll that requires
\* authentication denies an anonymous caller and an authenticated non-owner
\* (poll null, error non-null) and gives the owner the poll with error null.
C1_OwnerAlwaysReceives ==
    (/\ ret.op = "getPollById"
     /\ ret.id \in DOMAIN polls
     /\ RequireAuthentication(polls[ret.id]))
    => IF ret.user = polls[ret.id].user_id
       THEN ret.poll = polls[ret.id] /\ ret.error = Null
       ELSE ret.poll = NoPoll /\ ret.error # Null

\* C1 (amended): getPollById on an existing poll that requires
\* authentication denies an anonymous caller and an authenticated non-owner
\* (poll null, error non-null); the owner receives the poll with error null
\* when the store returns the row, and poll null with the generic retrieval
\* failure when the store read fails.
C1_PrivatePollVisibility ==
    [][\A c \in GetUserResults, i \in PollIds, f \in BOOLEAN :
         (/\ GetPollById(c, i, f)
          /\ i \in DOMAIN polls
          /\ RequireAuthentication(polls[i]))
         => IF c.user = polls[i].user_id
            THEN IF f
                 THEN ret'.poll = NoPoll /\ ret'.error = ErrRetrieve
                 ELSE ret'.poll = polls[i] /\ ret'.error = Null
            ELSE ret'.poll = NoPoll /\ ret'.error # Null]_vars

\* the owner has been given their poll that requires authentication
C1_Witness ==
    /\ ret.op = "getPollById"
    /\ ret.error = Null
    /\ ret.poll # NoPoll
    /\ RequireAuthentication(ret.poll)
    /\ ret.user = ret.poll.user_id

\* C2 as stated: getPollById on an existing poll whose requireAuthentication
\* is false or unset (or that has no settings record) gives any caller the
\* poll with error null.
C2_AnyCallerAlwaysReceives ==
    (/\ ret.op = "getPollById"
     /\ ret.id \in DOMAIN polls
     /\ ~RequireAuthentication(polls[ret.id]))
    => ret.poll = polls[ret.id] /\ ret.error = Null

\* C2 (amended): getPollById on an existing poll whose requireAuthentication
\* is false or unset (or that has no settings record) gives any caller,
\* anonymous, non-owner or owner, the poll with error null when the store
\* returns the row, and poll null with the generic retrieval failure when the
\* store read fails.
C2_PublicPollVisibility ==
    [][\A c \in GetUserResults, i \in PollIds, f \in BOOLEAN :
         (/\ GetPollById(c, i, f)
          /\ i \in DOMAIN polls
          /\ ~RequireAuthentication(polls[i]))
         => IF f
            THEN ret'.poll = NoPoll /\ ret'.error = ErrRetrieve
            ELSE ret'.poll = polls[i] /\ ret'.error = Null]_vars

\* an anonymous caller has been given a poll that has no settings record
C2_Witness ==
    /\ ret.op = "getPollById"
    /\ ret.user = Anonymous
    /\ ret.error = Null
    /\ ret.poll # NoPoll
    /\ ret.poll.settings = NullSettings

\* ------------------------------------------------------------------------ C3
\* C3 as the specification words it: deletePoll on an existing poll by an
\* authenticated caller who is not its owner always returns the not-authorized
\* result, by an anonymous caller the login result, and removes nothing.
C3_NonOwnerAlwaysForbidden ==
    [][\A p \in Procs, c \in GetUserResults, i \in PollIds, f \in BOOLEAN :
         (DeletePoll_Fetch(p, c, i, f) /\ i \in DOMAIN polls)
         => /\ c.user = Anonymous
               => ret'.error = ErrDeleteLogin /\ polls' = polls
            /\ (c.user \in Users /\ c.user # polls[i].user_id)
               => ret'.error = ErrDeleteForbidden /\ polls' = polls]_vars

\* C3: deletePoll on an existing poll by an anonymous caller returns the login
\* result; by an authenticated caller who is not the owner it returns the
\* not-authorized result when the fetch of the owner succeeds and the generic
\* not-found-or-error result when that fetch fails.  In each case the call
\* ends there with the poll row present and unchanged, and the only step that
\* removes a row belongs to a request of the row's owner.
C3_DeleteByNonOwner ==
    [][/\ \A p \in Procs, c \in GetUserResults, i \in PollIds, f \in BOOLEAN :
            (DeletePoll_Fetch(p, c, i, f) /\ i \in DOMAIN polls)
            => /\ c.user = Anonymous
                  => /\ ret' = Response("deletePoll", c.user, i,
                                         ErrDeleteLogin)
                     /\ polls' = polls /\ req'[p] = Idle
               /\ (c.user \in Users /\ c.user # polls[i].user_id)
                  => /\ ret' = Response("deletePoll", c.user, i,
                                IF f THEN ErrNotFoundOrError
                                     ELSE ErrDeleteForbidden)
                     /\ polls' = polls /\ req'[p] = Idle
       /\ \A p \in Procs, f \in BOOLEAN :
            (DeletePoll_Delete(p, f) /\ req[p].id \in DOMAIN polls)
            => /\ req[p].user = polls[req[p].id].user_id
               /\ \A i \in DOMAIN polls :
                    i # req[p].id => i \in DOMAIN polls' /\ polls'[i] = polls[i]
      ]_vars

C3_Witness ==
    /\ ret.op = "deletePoll" /\ ret.error = ErrDeleteForbidden
    /\ ret.id \in DOMAIN polls
    /\ ret.user \in Users /\ ret.user # polls[ret.id].user_id

\* ------------------------------------------------------------------------ C4
\* C4 as the specification words it: a submitVote by an authenticated user who
\* already has a vote row on a poll without allowMultipleVotes always ends in
\* the already-voted result.
C4_SecondVoteAlwaysConflict ==
    [][/\ \A p \in Procs, c \in GetUserResults, i \in PollIds,
            x \in OptionIndexes, f \in BOOLEAN :
            (/\ SubmitVote_Fetch(p, c, i, x, f) /\ i \in DOMAIN polls
             /\ ~AllowMultipleVotes(polls[i])
             /\ c.user \in Users /\ VoteCount(i, c.user) > 0)
            => votes' = votes /\ req'[p].op = "submitVote"
                              /\ req'[p].pc = "lookup"
       /\ \A p \in Procs, f \in BOOLEAN :
            (SubmitVote_Lookup(p, f) /\ VoteCount(req[p].id, req[p].user) > 0)
            => votes' = votes /\ ret'.error = ErrAlreadyVoted
      ]_vars

\* C4: when calls do not overlap, a submitVote by an authenticated user who
\* already has a vote row on a poll without allowMultipleVotes inserts nothing
\* and fails: with the already-voted result when the poll fetch and the vote
\* lookup succeed, with the generic not-found-or-error result when the poll
\* fetch fails, with the generic lookup-failure result when the lookup fails.
\* Hence every (poll without allowMultipleVotes, user) pair has at most one
\* vote row in every state.
C4_SequentialDoubleVote ==
    [][/\ \A p \in Procs, c \in GetUserResults, i \in PollIds,
            x \in OptionIndexes, f \in BOOLEAN :
            (/\ SubmitVote_Fetch(p, c, i, x, f) /\ i \in DOMAIN polls
             /\ ~AllowMultipleVotes(polls[i])
             /\ c.user \in Users /\ VoteCount(i, c.user) > 0)
            => /\ votes' = votes
               /\ IF f THEN ret'.error = ErrNotFoundOrError /\ req'[p] = Idle
                       ELSE req'[p].op = "submitVote" /\ req'[p].pc = "lookup"
       /\ \A p \in Procs, f \in BOOLEAN :
            (SubmitVote_Lookup(p, f) /\ VoteCount(req[p].id, req[p].user) > 0)
            => /\ votes' = votes /\ req'[p] = Idle
               /\ ret'.error = IF f THEN ErrCheckVotes ELSE ErrAlreadyVoted
       /\ \A i \in DOMAIN polls', u \in Users :
            ~AllowMultipleVotes(polls'[i])
            => Cardinality({k \in DOMAIN votes' :
                   votes'[k].poll_id = i /\ votes'[k].user_id = u}) <= 1
      ]_vars

C4_Witness ==
    /\ ret.op = "submitVote" /\ ret.error = ErrAlreadyVoted
    /\ ret.user \in Users /\ ret.id \in DOMAIN polls
    /\ ~AllowMultipleVotes(polls[ret.id])
    /\ VoteCount(ret.id, ret.user) = 1

\* ------------------------------------------------------------------------ C5
\* C5: the insert of a vote is not tied to the lookup that preceded it: an
\* insert step the store accepts appends the request's row and returns
\* success whatever rows the votes table holds by then, so two overlapping
\* requests of one user that both pass the lookup both succeed and leave two
\* rows for the same (poll, user).
C5_ConcurrentDoubleVote ==
    [][\A p \in Procs :
         (SubmitVote_Insert(p, FALSE) /\ req[p].user \in Users)
         => /\ ret'.error = Null
            /\ Len(votes') = Len(votes) + 1
            /\ votes'[Len(votes')].poll_id = req[p].id
            /\ votes'[Len(votes')].user_id = req[p].user
            /\ \A k \in DOMAIN votes : votes'[k] = votes[k]]_vars

C5_Witness ==
    /\ ret.op = "submitVote" /\ ret.error = Null
    /\ ret.user \in Users /\ ret.id \in DOMAIN polls
    /\ ~AllowMultipleVotes(polls[ret.id])
    /\ VoteCount(ret.id, ret.user) = 2

\* ------------------------------------------------------------------------ C6
\* C6: updatePoll with valid input by an authenticated caller who does not own
\* the poll leaves the poll row unchanged and returns a failure.
C6_UpdateByNonOwnerFails ==
    [][\A c \in GetUserResults, i \in PollIds, q \in Questions,
          o \in FormOptions, f \in BOOLEAN :
         (/\ UpdatePoll(c, i, q, o, f)
          /\ q # "" /\ Cardinality({k \in DOMAIN o : o[k] # ""}) >= 2
          /\ i \in DOMAIN polls
          /\ c.user \in Users /\ c.user # polls[i].user_id)
         => polls' = polls /\ ret'.error # Null]_vars

\* ------------------------------------------------------------------------ C7
\* C7: the error of every response is absent, the field-error map, or one of
\* the fixed generic strings; it is never the provider's own text.
C7_OnlyGenericErrors ==
    LET CoreErrors ==
            {ErrValidation, ErrUserInfo, ErrCreateLogin, ErrCreate,
             ErrNotAuthenticated, ErrUserPolls, ErrRetrieve, ErrPollNotFound,
             ErrViewLogin, ErrViewForbidden, ErrNotFoundOrError, ErrVoteLogin,
             ErrCheckVotes, ErrAlreadyVoted, ErrSubmitVote, ErrDeleteLogin,
             ErrDeleteForbidden, ErrDelete, ErrUpdateLogin, ErrUpdate,
             ErrInvalidCredentials, ErrRegistration}
    IN  ret # NoResponse
        => /\ ret.error \in CoreErrors \cup {Null, FieldErrors}
           /\ ret.error \notin ProviderMessages

\* ------------------------------------------------------------------------ C8
\* C8 as the specification words it: submitVote by an anonymous caller on a
\* poll that requires authentication always returns the login result.
C8_AnonymousAlwaysAuthError ==
    [][\A p \in Procs, c \in GetUserResults, i \in PollIds,
          x \in OptionIndexes, f \in BOOLEAN :
         (/\ SubmitVote_Fetch(p, c, i, x, f) /\ i \in DOMAIN polls
          /\ RequireAuthentication(polls[i]) /\ c.user = Anonymous)
         => ret'.error = ErrVoteLogin /\ votes' = votes]_vars

\* C8: submitVote by an anonymous caller on an existing poll that requires
\* authentication ends at once without a vote row: with the login result when
\* the poll fetch succeeds, with the generic not-found-or-error result when it
\* fails.  Hence no poll that requires authentication ever has a vote row
\* whose user id is null.
C8_AnonymousVoteOnRestrictedPoll ==
    [][/\ \A p \in Procs, c \in GetUserResults, i \in PollIds,
            x \in OptionIndexes, f \in BOOLEAN :
            (/\ SubmitVote_Fetch(p, c, i, x, f) /\ i \in DOMAIN polls
             /\ RequireAuthentication(polls[i]) /\ c.user = Anonymous)
            => /\ ret' = Response("submitVote", Anonymous, i,
                          IF f THEN ErrNotFoundOrError ELSE ErrVoteLogin)
               /\ votes' = votes /\ req'[p] = Idle
       /\ \A i \in DOMAIN polls', k \in DOMAIN votes' :
            (RequireAuthentication(polls'[i]) /\ votes'[k].poll_id = i)
            => votes'[k].user_id # Null
      ]_vars

C8_Witness ==
    /\ ret.op = "submitVote" /\ ret.error = ErrVoteLogin
    /\ ret.user = Anonymous /\ ret.id \in DOMAIN polls
    /\ RequireAuthentication(polls[ret.id])
    /\ \E k \in DOMAIN votes : votes[k].poll_id = ret.id

\* ------------------------------------------------------------------------ C9
\* C9: on a poll without allowMultipleVotes the duplicate check is per user.
\* Absent store failures an authenticated caller's request goes to the
\* lookup, a lookup that finds no row of that caller goes on to the insert
\* whatever rows other users have, and the insert adds exactly one row, of
\* that caller, and returns success.  So two different users who each vote
\* once both succeed and the poll ends with one row per user.
C9_DifferentUsersBothVote ==
    [][/\ \A p \in Procs, c \in GetUserResults, i \in PollIds,
            x \in OptionIndexes :
            (/\ SubmitVote_Fetch(p, c, i, x, FALSE) /\ i \in DOMAIN polls
             /\ ~AllowMultipleVotes(polls[i]) /\ c.user \in Users)
            => /\ req'[p].op = "submitVote" /\ req'[p].pc = "lookup"
               /\ req'[p].user = c.user /\ req'[p].id = i
       /\ \A p \in Procs :
            (SubmitVote_Lookup(p, FALSE)
             /\ VoteCount(req[p].id, req[p].user) = 0)
            => req'[p] = [req[p] EXCEPT !.pc = "insert"] /\ votes' = votes
       /\ \A p \in Procs :
            (SubmitVote_Insert(p, FALSE) /\ req[p].user \in Users)
            => /\ ret'.error = Null /\ ret'.user = req[p].user
               /\ \A u \in Users :
                    Cardinality({k \in DOMAIN votes' :
                        votes'[k].poll_id = req[p].id
                        /\ votes'[k].user_id = u})
                    = VoteCount(req[p].id, u)
                      + (IF u = req[p].user THEN 1 ELSE 0)
      ]_vars

C9_Witness ==
    /\ ret.op = "submitVote" /\ ret.error = Null
    /\ ret.id \in DOMAIN polls /\ ~AllowMultipleVotes(polls[ret.id])
    /\ Len(votes) = 2
    /\ \A u \in Users : VoteCount(ret.id, u) = 1

\* ----------------------------------------------------------------------- C10
\* C10: createPoll and updatePoll called with an empty or missing question, or
\* with fewer than two non-empty options, return the validation result and
\* touch no table, whoever the caller is and whatever the store would answer.
C10_ValidationBeforeStore ==
    [][\A c \in GetUserResults, q \in Questions, o \in FormOptions,
          f \in BOOLEAN :
         (q = "" \/ Cardinality({k \in DOMAIN o : o[k] # ""}) < 2)
         => /\ CreatePoll(c, q, o, f)
               => /\ ret'.error = ErrValidation
                  /\ UNCHANGED <<polls, nextId, votes>>
            /\ \A i \in PollIds :
                 UpdatePoll(c, i, q, o, f)
                 => /\ ret'.error = ErrValidation
                    /\ UNCHANGED <<polls, nextId, votes>>]_vars

C10_Witness ==
    /\ ret.op = "createPoll" /\ ret.error = ErrValidation
    /\ ret.user \in Users
    /\ polls = <<>> /\ nextId = 1

\* ----------------------------------------------------------------------- C11
\* C11: in every state every stored vote's option index is a valid index into
\* the options of the poll it references: 0 <= option_index < number of
\* options.
C11_VoteIndexInRange ==
    \A k \in DOMAIN votes :
        votes[k].poll_id \in DOMAIN polls
        => /\ 0 <= votes[k].option_index
           /\ votes[k].option_index < Len(polls[votes[k].poll_id].options)

\* ----------------------------------------------------------------------- C12
\* C12: with requests interleaved in any way, a step that adds a poll row adds
\* one row owned by the caller of createPoll; a step that changes a row
\* belongs to an updatePoll request of the row's owner; a step that removes a
\* row belongs to a deletePoll request of the row's owner; no step changes a
\* row's owner id.
C12_OnlyOwnerChangesPoll ==
    [][/\ \A i \in DOMAIN polls' \ DOMAIN polls :
            /\ ret'.op = "createPoll"
            /\ polls'[i].user_id = ret'.user /\ ret'.user \in Users
            /\ polls'[i].id = i /\ DOMAIN polls' = DOMAIN polls \cup {i}
       /\ \A i \in DOMAIN polls \cap DOMAIN polls' :
            /\ polls'[i].user_id = polls[i].user_id
            /\ polls'[i] # polls[i]
               => /\ ret'.op = "updatePoll" /\ ret'.id = i
                  /\ ret'.user = polls[i].user_id
       /\ \A i \in DOMAIN polls \ DOMAIN polls' :
            /\ ret'.op = "deletePoll" /\ ret'.id = i
            /\ ret'.user = polls[i].user_id
            /\ DOMAIN polls' = DOMAIN polls \ {i}
      ]_vars

C12_Witness ==
    /\ ret.op = "deletePoll" /\ ret.error = Null
    /\ ret.id \notin DOMAIN polls /\ ret.id < nextId
    /\ \E p \in Procs : req[p].op = "deletePoll" /\ req[p].id = ret.id

\* ----------------------------------------------------------------------- C13
\* C13: in every state every stored poll has a non-empty question and at
\* least two options, each of them non-empty.
C13_PollWellFormed ==
    \A i \in DOMAIN polls :
        /\ polls[i].question # ""
        /\ Len(polls[i].options) >= 2
        /\ \A k \in DOMAIN polls[i].options : polls[i].options[k] # ""

C13_Witness ==
    /\ ret.op = "updatePoll" /\ ret.error = Null
    /\ ret.id \in DOMAIN polls /\ ret.user = polls[ret.id].user_id
    /\ polls[ret.id].options = <<"a", "b">>

\* ----------------------------------------------------------------------- C14
\* C14: with requests interleaved in any way, every step leaves each stored
\* vote row as it was and at its place; the votes table only grows, by one
\* row at a time, and only in a submitVote request.
C14_VotesImmutable ==
    [][/\ Len(votes') >= Len(votes)
       /\ \A k \in DOMAIN votes : votes'[k] = votes[k]
       /\ votes' # votes
          => /\ Len(votes') = Len(votes) + 1
             /\ ret'.op = "submitVote" /\ ret'.error = Null
             /\ votes'[Len(votes')].poll_id = ret'.id]_vars

C14_Witness ==
    /\ ret.op = "deletePoll" /\ ret.error = Null
    /\ ret.id \notin DOMAIN polls
    /\ \E k \in DOMAIN votes : votes[k].poll_id = ret.id

\* ----------------------------------------------------------------------- C15
\* C15 as the specification words it: on a poll with requireAuthentication and
\* allowMultipleVotes both false every submitVote of an anonymous caller
\* succeeds and inserts a row with a null user id.
C15_AnonymousVoteAlwaysSucceeds ==
    [][/\ \A p \in Procs, c \in GetUserResults, i \in PollIds,
            x \in OptionIndexes, f \in BOOLEAN :
            (/\ SubmitVote_Fetch(p, c, i, x, f) /\ i \in DOMAIN polls
             /\ ~RequireAuthentication(polls[i])
             /\ ~AllowMultipleVotes(polls[i]) /\ c.user = Anonymous)
            => req'[p].op = "submitVote" /\ req'[p].pc = "insert"
       /\ \A p \in Procs, f \in BOOLEAN :
            (SubmitVote_Insert(p, f) /\ req[p].user = Anonymous)
            => /\ ret' = Response("submitVote", Anonymous, req[p].id, Null)
               /\ Len(votes') = Len(votes) + 1
               /\ votes'[Len(votes')].user_id = Null
      ]_vars

\* C15: on a poll with requireAuthentication and allowMultipleVotes both false
\* a submitVote of an anonymous caller never goes through the existing-vote
\* lookup, however many null-user rows the poll has: when the poll fetch
\* succeeds the request goes straight to the insert, and an insert the store
\* accepts adds a row with a null user id and returns success.  When the poll
\* fetch or the insert fails the call returns the generic error of that step
\* and adds no row.
C15_AnonymousRepeatVote ==
    [][/\ \A p \in Procs, c \in GetUserResults, i \in PollIds,
            x \in OptionIndexes, f \in BOOLEAN :
            (/\ SubmitVote_Fetch(p, c, i, x, f) /\ i \in DOMAIN polls
             /\ ~RequireAuthentication(polls[i])
             /\ ~AllowMultipleVotes(polls[i]) /\ c.user = Anonymous)
            => /\ votes' = votes
               /\ IF f
                  THEN /\ ret' = Response("submitVote", Anonymous, i,
                                          ErrNotFoundOrError)
                       /\ req'[p] = Idle
                  ELSE /\ req'[p].op = "submitVote" /\ req'[p].pc = "insert"
                       /\ req'[p].user = Anonymous /\ req'[p].id = i
       /\ \A p \in Procs, f \in BOOLEAN :
            SubmitVote_Lookup(p, f) => req[p].user # Anonymous
       /\ \A p \in Procs, f \in BOOLEAN :
            (SubmitVote_Insert(p, f) /\ req[p].user = Anonymous)
            => IF f
               THEN /\ ret' = Response("submitVote", Anonymous, req[p].id,
                                       ErrSubmitVote)
                    /\ votes' = votes
               ELSE /\ ret' = Response("submitVote", Anonymous, req[p].id,
                                       Null)
                    /\ Len(votes') = Len(votes) + 1
                    /\ votes'[Len(votes')].user_id = Null
                    /\ votes'[Len(votes')].poll_id = req[p].id
                    /\ \A k \in DOMAIN votes : votes'[k] = votes[k]
      ]_vars

C15_Witness ==
    /\ ret.op = "submitVote" /\ ret.user = Anonymous /\ ret.error = Null
    /\ ret.id \in DOMAIN polls
    /\ ~RequireAuthentication(polls[ret.id])
    /\ ~AllowMultipleVotes(polls[ret.id])
    /\ VoteCount(ret.id, Null) = 2

\* ----------------------------------------------------------------------- C16
\* C16: every login the provider rejects returns exactly the one generic
\* result, and a rejected login step is at the same time the step of every
\* other rejected attempt: whether the email is registered, and which error
\* the provider raised, cannot be told from the result.
C16_LoginNoEnumeration ==
    [][\A e1 \in Emails, w1 \in Passwords, f1 \in BOOLEAN :
         (/\ Login([email |-> e1, password |-> w1], f1)
          /\ SignInWithPassword(e1, w1, f1) # Null)
         => /\ ret' = Response("login", Anonymous, 0, ErrInvalidCredentials)
            /\ ret'.fieldErrors = <<>>
            /\ \A e2 \in Emails, w2 \in Passwords, f2 \in BOOLEAN :
                 SignInWithPassword(e2, w2, f2) # Null
                 => Login([email |-> e2, password |-> w2], f2)]_vars

C16_Witness ==
    /\ ret.op = "login" /\ ret.error = ErrInvalidCredentials
    /\ \E a \in accounts : \E e \in Emails :
          /\ IsEmail(e) /\ \A b \in accounts : b.email # e
          /\ SignInWithPassword(a.email, <<"a", "b", "c">>, FALSE)
                = "Invalid login credentials"
          /\ SignInWithPassword(e, a.password, FALSE)
                = "Invalid login credentials"

\* ----------------------------------------------------------------------- C17
\* C17 as the specification words it: getUserPolls with a resolved identity
\* always returns exactly the caller's polls, newest first, and no error.
C17_ListAlwaysReturnsOwned ==
    [][\A c \in GetUserResults, f \in BOOLEAN :
         (GetUserPolls(c, f) /\ c.user \in Users)
         => /\ ret'.error = Null
            /\ {ret'.polls[k] : k \in DOMAIN ret'.polls}
                 = {polls[i] : i \in {j \in DOMAIN polls :
                                         polls[j].user_id = c.user}}]_vars

\* C17: getUserPolls with a resolved identity returns, when the store read
\* succeeds, each poll owned by the caller exactly once and no other poll,
\* in strictly descending order of creation time, with no error; when the
\* store read fails it returns an empty list with the generic listing error.
\* With no identity it returns an empty list with the not-authenticated
\* error.  It changes no table.
C17_ListOwnPolls ==
    [][\A c \in GetUserResults, f \in BOOLEAN :
         GetUserPolls(c, f)
         => /\ UNCHANGED <<polls, votes>>
            /\ ret'.op = "getUserPolls"
            /\ IF c.user = Anonymous
               THEN ret'.polls = <<>> /\ ret'.error = ErrNotAuthenticated
               ELSE IF f
               THEN ret'.polls = <<>> /\ ret'.error = ErrUserPolls
               ELSE /\ ret'.error = Null
                    /\ {ret'.polls[k] : k \in DOMAIN ret'.polls}
                         = {polls[i] : i \in {j \in DOMAIN polls :
                                                 polls[j].user_id = c.user}}
                    /\ \A j, k \in DOMAIN ret'.polls :
                         j < k => ret'.polls[j].created_at
                                    > ret'.polls[k].created_at]_vars

C17_Witness ==
    /\ ret.op = "getUserPolls" /\ ret.error = Null
    /\ Len(ret.polls) >= 2
    /\ ret.polls[1].created_at > ret.polls[2].created_at
    /\ \E i \in DOMAIN polls : polls[i].user_id # ret.user

\* ----------------------------------------------------------------------- C18
\* C18: register checks the password before it calls the provider.  A
\* password that breaks a rule yields the field-error result whose password
\* entry lists the message of every rule it breaks and of no other, whatever
\* the provider would answer, and creates no account; "abc" yields the four
\* messages for length, uppercase, number and special character.  A password
\* such as "Abcdef1!" has no password entry, and with a valid name and email
\* the result is then the provider's: success or the generic failure.
C18_PasswordRules ==
    [][\A n \in Names, e \in Emails, w \in Passwords, f \in BOOLEAN :
         Register([name |-> n, email |-> e, password |-> w], f)
         => LET has(class) == \E i \in DOMAIN w : w[i] \in class
                unmet ==
                    (IF Len(w) >= 8 THEN {} ELSE {MsgPwLength})
                    \cup (IF has(UpperCase) THEN {} ELSE {MsgPwUpper})
                    \cup (IF has(LowerCase) THEN {} ELSE {MsgPwLower})
                    \cup (IF has(Digits) THEN {} ELSE {MsgPwNumber})
                    \cup (IF \A i \in DOMAIN w :
                                w[i] \in UpperCase \cup LowerCase \cup Digits
                          THEN {MsgPwSpecial} ELSE {})
                listed ==
                    IF "password" \in DOMAIN ret'.fieldErrors
                    THEN {ret'.fieldErrors["password"][k] :
                             k \in DOMAIN ret'.fieldErrors["password"]}
                    ELSE {}
            IN  /\ listed = unmet
                /\ unmet # {}
                   => /\ ret'.error = FieldErrors /\ accounts' = accounts
                      /\ Len(ret'.fieldErrors["password"])
                           = Cardinality(unmet)
                /\ w = <<"a", "b", "c">>
                   => ret'.fieldErrors["password"]
                        = <<MsgPwLength, MsgPwUpper, MsgPwNumber,
                            MsgPwSpecial>>
                /\ w = <<"A", "b", "c", "d", "e", "f", "1", "!">>
                   => /\ unmet = {}
                      /\ (Len(n) >= 2 /\ Len(n) <= 50 /\ IsEmail(e))
                         => ret'.error \in {Null, ErrRegistration}]_vars

C18_Witness ==
    /\ ret.op = "register" /\ ret.error = FieldErrors
    /\ DOMAIN ret.fieldErrors = {"password"}
    /\ Len(ret.fieldErrors["password"]) = 4
    /\ accounts # {}

\* ----------------------------------------------------------------------- C19
\* C19: the existing-vote lookup of an authenticated caller's request ends in
\* one of three ways and inserts nothing itself.  A store failure yields the
\* generic lookup error and ends the request.  The one row of the caller for
\* the poll, when found, yields the already-voted error and ends the request.
\* The store's answer to zero rows (which single() also gives for more than
\* one row) is no failure: the request goes on to the insert with no response
\* yet.
C19_LookupOutcomes ==
    [][\A p \in Procs, f \in BOOLEAN :
         SubmitVote_Lookup(p, f)
         => LET n == VoteCount(req[p].id, req[p].user)
                resp(e) == Response("submitVote", req[p].user, req[p].id, e)
            IN  /\ req[p].user \in Users
                /\ votes' = votes
                /\ IF f
                   THEN ret' = resp(ErrCheckVotes) /\ req'[p] = Idle
                   ELSE IF n = 1
                   THEN ret' = resp(ErrAlreadyVoted) /\ req'[p] = Idle
                   ELSE /\ ret' = NoResponse
                        /\ req'[p] = [req[p] EXCEPT !.pc = "insert"]]_vars

C19_Witness ==
    /\ ret.op = "submitVote" /\ ret.error = Null /\ ret.user \in Users
    /\ ret.id \in DOMAIN polls /\ ~AllowMultipleVotes(polls[ret.id])
    /\ votes = <<[poll_id |-> ret.id, user_id |-> ret.user,
                  option_index |-> 2]>>

\* ----------------------------------------------------------------------- C20
\* C20: no step changes the identifier, owner id, settings or creation time
\* of a poll that stays in the store.  An updatePoll call changes no vote and
\* adds or removes no poll, leaves every poll other than the addressed one as
\* it was, and when it is valid, made by the owner and accepted by the store
\* it sets the addressed poll's question and options to its input and
\* nothing else.
C20_UpdateFrame ==
    [][/\ \A i \in DOMAIN polls \cap DOMAIN polls' :
            /\ polls'[i].id = polls[i].id
            /\ polls'[i].user_id = polls[i].user_id
            /\ polls'[i].settings = polls[i].settings
            /\ polls'[i].created_at = polls[i].created_at
            /\ RequireAuthentication(polls'[i])
                 = RequireAuthentication(polls[i])
            /\ AllowMultipleVotes(polls'[i]) = AllowMultipleVotes(polls[i])
       /\ \A c \in GetUserResults, i \in PollIds, q \in Questions,
            o \in FormOptions, f \in BOOLEAN :
            UpdatePoll(c, i, q, o, f)
            => /\ votes' = votes
               /\ DOMAIN polls' = DOMAIN polls
               /\ \A j \in DOMAIN polls : j # i => polls'[j] = polls[j]
               /\ (/\ i \in DOMAIN polls /\ ~f /\ q # ""
                   /\ c.user = polls[i].user_id
                   /\ Len(SelectSeq(o, LAMBDA x : x # "")) >= 2)
                  => polls'[i] =
                       [polls[i] EXCEPT
                          !.question = q,
                          !.options = SelectSeq(o, LAMBDA x : x # "")]
      ]_vars

C20_Witness ==
    /\ ret.op = "updatePoll" /\ ret.error = Null
    /\ ret.id \in DOMAIN polls /\ ret.user = polls[ret.id].user_id
    /\ polls[ret.id].options = <<"a", "b", "c">>
    /\ RequireAuthentication(polls[ret.id])
    /\ \E j \in DOMAIN polls :
          /\ j # ret.id /\ polls[j].user_id = ret.user
          /\ polls[j].options = <<"a", "b">>
    /\ \E k \in DOMAIN votes : votes[k].poll_id = ret.id

\* ----------------------------------------------------------------------- C21
\* C21: on an existing poll that requires authentication submitVote admits an
\* authenticated caller whether or not the caller owns the poll: when the
\* poll fetch succeeds the request goes on to the existing-vote lookup (or
\* straight to the insert when the poll allows multiple votes), and an insert
\* the store accepts adds the caller's row and returns success.  The same
\* caller, when not the owner, is refused the poll by getPollById.
C21_VoteIgnoresOwnership ==
    [][/\ \A p \in Procs, c \in GetUserResults, i \in PollIds,
            x \in OptionIndexes :
            (/\ SubmitVote_Fetch(p, c, i, x, FALSE) /\ i \in DOMAIN polls
             /\ RequireAuthentication(polls[i]) /\ c.user \in Users)
            => /\ ret' = NoResponse
               /\ req'[p] = [op |-> "submitVote",
                             pc |-> IF AllowMultipleVotes(polls[i])
                                    THEN "insert" ELSE "lookup",
                             user |-> c.user, id |-> i, optionIndex |-> x]
       /\ \A p \in Procs :
            (/\ SubmitVote_Insert(p, FALSE) /\ req[p].user \in Users
             /\ req[p].id \in DOMAIN polls
             /\ RequireAuthentication(polls[req[p].id]))
            => /\ ret' = Response("submitVote", req[p].user, req[p].id, Null)
               /\ votes' = Append(votes,
                     [poll_id |-> req[p].id, user_id |-> req[p].user,
                      option_index |-> req[p].optionIndex])
       /\ \A c \in GetUserResults, i \in PollIds :
            (/\ GetPollById(c, i, FALSE) /\ i \in DOMAIN polls
             /\ RequireAuthentication(polls[i])
             /\ c.user \in Users /\ c.user # polls[i].user_id)
            => ret'.poll = NoPoll /\ ret'.error = ErrViewForbidden
      ]_vars

C21_Witness ==
    /\ ret.op = "submitVote" /\ ret.error = Null /\ ret.user \in Users
    /\ ret.id \in DOMAIN polls /\ RequireAuthentication(polls[ret.id])
    /\ ret.user # polls[ret.id].user_id
    /\ VoteCount(ret.id, ret.user) = 1
    /\ VoteCount(ret.id, polls[ret.id].user_id) = 0


============================================================================
